---- MODULE Spec2Model ----
(***************************************************************************)
(* Model of web/socket_listener.js: SocketListener (a WebSocket wrapper    *)
(* that reconnects after every close) and StateListener (the "state"       *)
(* message convention on top of it).                                       *)
(*                                                                         *)
(* Time is in milliseconds.  JavaScript values are records of one shape    *)
(* [k, s, o]: k is the type tag, s the string of a string value, o the     *)
(* ordered members of an object value.  A message text is a sequence of    *)
(* lexical tokens [t, v].                                                  *)
(***************************************************************************)
EXTENDS Integers, Sequences, FiniteSets, TLC

\* ------------------------------------------------------------------ bounds
MaxSockets == 3      \* handles created in one run, over all managers
MaxMessages == 2     \* message events delivered in one run
MaxTicks == 1        \* steps of the clock while no timer is pending
MaxAdds == 1         \* manual calls of SocketListener.addListeners in one run

\* ------------------------------------------------------- JavaScript values
Undefined == [k |-> "undefined", s |-> "", o |-> <<>>]
Str(x) == [k |-> "str", s |-> x, o |-> <<>>]
Obj(members) == [k |-> "obj", s |-> "", o |-> members]
Member(key, val) == [key |-> key, val |-> val]

\* obj[key] = val on an ordered member list: an existing key keeps its place.
SetMember(members, key, val) ==
    IF \E i \in 1..Len(members) : members[i].key = key
    THEN [i \in 1..Len(members) |->
             IF members[i].key = key THEN Member(key, val) ELSE members[i]]
    ELSE Append(members, Member(key, val))

\* value.key as JavaScript reads it: undefined when the property is missing,
\* and undefined on a string primitive.
GetProp(value, key) ==
    IF value.k = "obj" /\ \E i \in 1..Len(value.o) : value.o[i].key = key
    THEN value.o[CHOOSE i \in 1..Len(value.o) : value.o[i].key = key].val
    ELSE Undefined

\* ------------------------------------------------------------- JSON texts
Tok(t, v) == [t |-> t, v |-> v]
LB == Tok("{", "")
RB == Tok("}", "")
Colon == Tok(":", "")
Comma == Tok(",", "")
S(x) == Tok("str", x)

ParseFail == [ok |-> FALSE, val |-> Undefined, next |-> 0]

RECURSIVE ParseValue(_, _), ParseMembers(_, _, _)

\* JSON.parse, value production: a string literal or an object.
ParseValue(toks, i) ==
    IF i > Len(toks) THEN ParseFail
    ELSE IF toks[i].t = "str" THEN [ok |-> TRUE, val |-> Str(toks[i].v), next |-> i + 1]
    ELSE IF toks[i].t = "{" THEN
        IF i + 1 <= Len(toks) /\ toks[i + 1].t = "}"
        THEN [ok |-> TRUE, val |-> Obj(<<>>), next |-> i + 2]
        ELSE ParseMembers(toks, i + 1, <<>>)
    ELSE ParseFail

\* JSON.parse, members production: "key" : value, then "," or "}".
ParseMembers(toks, i, acc) ==
    IF i + 1 > Len(toks) \/ toks[i].t # "str" \/ toks[i + 1].t # ":" THEN ParseFail
    ELSE LET r == ParseValue(toks, i + 2) IN
         IF ~r.ok \/ r.next > Len(toks) THEN ParseFail
         ELSE LET acc2 == SetMember(acc, toks[i].v, r.val) IN
              IF toks[r.next].t = "}"
              THEN [ok |-> TRUE, val |-> Obj(acc2), next |-> r.next + 1]
              ELSE IF toks[r.next].t = ","
              THEN ParseMembers(toks, r.next + 1, acc2)
              ELSE ParseFail

\* JSON.parse(text): the value, or a SyntaxError (ok = FALSE) when the text is
\* not one complete JSON value.
JSONParse(text) ==
    LET r == ParseValue(text, 1) IN
    IF r.ok /\ r.next = Len(text) + 1 THEN [ok |-> TRUE, val |-> r.val]
    ELSE [ok |-> FALSE, val |-> Undefined]

\* The message texts the transport delivers in this model.
TxtReady == <<LB, S("event"), Colon, S("state"), Comma,
              S("data"), Colon, LB, S("phase"), Colon, S("ready"), RB, RB>>
TxtIdle == <<LB, S("event"), Colon, S("state"), Comma, S("data"), Colon, S("idle"), RB>>
TxtOther == <<LB, S("event"), Colon, S("journal"), Comma, S("data"), Colon, S("idle"), RB>>
TxtNoEvent == <<LB, S("data"), Colon, S("idle"), RB>>
TxtTruncated == <<LB, S("event"), Colon, S("state"), Comma, S("data"), Colon>>
Texts == {TxtReady, TxtIdle, TxtOther, TxtNoEvent, TxtTruncated}

\* ------------------------------------------------------------------- state
VARIABLES
    listener,   \* the StateListener object: constructed, stateChangeCallback, state, s
    mgrs,       \* the SocketListener objects, in order of construction
    socks,      \* every WebSocket ever created, in order of creation
    timers,     \* the pending window.setTimeout calls
    now,        \* the clock (ms)
    ticks,      \* the steps the clock has made while no timer was pending
    calls,      \* the arguments stateChangeCallback has been invoked with
    count,      \* messages delivered, run and addListeners calls, uncaught exceptions
    last        \* what the latest step did

vars == <<listener, mgrs, socks, timers, now, ticks, calls, count, last>>

closed_repeat_delay == 10

\* A function value: a caller's handler (tag names it), one of the three
\* closures of StateListener.run (tag is the type it passes on), or the
\* reconnect closure of initConnection, bound to its manager.
UserFn(tag) == [f |-> "user", tag |-> tag, mgr |-> 0]
GenericFn(tag) == [f |-> "generic", tag |-> tag, mgr |-> 0]
ReconnectFn(m) == [f |-> "reconnect", tag |-> "", mgr |-> m]

\* A callbacks argument: undefined, or an object whose own properties are
\* enumerated in insertion order.
NoCallbacks == [defined |-> FALSE, entries |-> <<>>]
Callbacks(entries) == [defined |-> TRUE, entries |-> entries]
Entry(key, fn) == [key |-> key, fn |-> fn]

\* The object literal StateListener.run passes to the SocketListener.
RunCallbacks ==
    Callbacks(<<Entry("open", GenericFn("open")),
                Entry("close", GenericFn("close")),
                Entry("message", GenericFn("message"))>>)

\* The object literal initConnection passes to addListeners for manager m.
ReconnectCallbacks(m) == Callbacks(<<Entry("close", ReconnectFn(m))>>)

\* The callbacks arguments a caller of SocketListener passes in this model.
CallbackMaps ==
    { NoCallbacks,
      Callbacks(<<>>),
      Callbacks(<<Entry("close", UserFn("onClose"))>>),
      Callbacks(<<Entry("message", UserFn("onMessage"))>>),
      Callbacks(<<Entry("close", UserFn("onClose")), Entry("message", UserFn("onMessage"))>>),
      Callbacks(<<Entry("open", UserFn("onOpen")), Entry("close", UserFn("onClose")),
                  Entry("message", UserFn("onMessage"))>>) }

\* The callbacks arguments of a caller's own addListeners calls on manager
\* m: undefined, the object the manager was constructed with, and a new one.
ManualMaps(m) ==
    { NoCallbacks,
      mgrs[m].callbacks,
      Callbacks(<<Entry("message", UserFn("onAdded"))>>) }

NoEvent == [type |-> "", data |-> <<>>]
Event(type, data) == [type |-> type, data |-> data]

\* What one step did: the operation, the handle and event it was about, the
\* functions the event's listeners called (in order), the values given to
\* stateChangeCallback, and the numbers of exceptions thrown, timers
\* scheduled, console.error and console.info lines.
Did(op, h, ev, c) ==
    [op |-> op, sock |-> h, ev |-> ev, invoked |-> c.invoked, cbArgs |-> c.cbArgs,
     thrown |-> c.thrown, scheduled |-> c.scheduled, errors |-> c.errors, infos |-> c.infos]

\* The effects a step accumulates while its listeners run.
Ctx(state, tm) ==
    [state |-> state, timers |-> tm, invoked |-> <<>>, cbArgs |-> <<>>,
     thrown |-> 0, scheduled |-> 0, errors |-> 0, infos |-> 0]

\* ------------------------------------------------------------ StateListener
\* A variant of handleStateUpdate that calls stateChangeCallback without
\* the typeof test: a TypeError when none was given.
HandleStateUpdateUnchecked(state, c) ==
    IF listener.hasCallback
    THEN [c EXCEPT !.state = state, !.cbArgs = Append(@, state)]
    ELSE [c EXCEPT !.state = state, !.thrown = @ + 1]

\* StateListener.handleStateUpdate(state)
HandleStateUpdate(state, c) ==
    IF listener.hasCallback
    THEN [c EXCEPT !.state = state, !.cbArgs = Append(@, state)]
    ELSE [c EXCEPT !.state = state, !.infos = @ + 1]

\* An exception leaves the listener that raised it; the event's other
\* listeners still run.
Throw(c) == [c EXCEPT !.thrown = @ + 1]

\* A variant of genericEventListener that hands the whole parsed message,
\* not its data field, to handleStateUpdate.
GenericEventListenerWholeMessage(type, event, c) ==
    IF type = "message" /\ event.type = "message"
    THEN LET json == JSONParse(event.data) IN
         IF ~json.ok THEN Throw(c)
         ELSE IF GetProp(json.val, "event") = Str("state")
              THEN HandleStateUpdate(json.val, c)
              ELSE c
    ELSE IF type = "close" THEN Throw(c)
    ELSE c

\* A variant of genericEventListener without the switch on json.event: the
\* data of every parsed message is taken for a state.
GenericEventListenerAnyEvent(type, event, c) ==
    IF type = "message" /\ event.type = "message"
    THEN LET json == JSONParse(event.data) IN
         IF ~json.ok THEN Throw(c)
         ELSE HandleStateUpdate(GetProp(json.val, "data"), c)
    ELSE IF type = "close" THEN Throw(c)
    ELSE c

\* A variant of genericEventListener that takes a text it cannot parse for a
\* message without content and goes on to handleStateUpdate.
GenericEventListenerLenientParse(type, event, c) ==
    IF type = "message" /\ event.type = "message"
    THEN LET json == JSONParse(event.data) IN
         IF ~json.ok THEN HandleStateUpdate(Undefined, c)
         ELSE IF GetProp(json.val, "event") = Str("state")
              THEN HandleStateUpdate(GetProp(json.val, "data"), c)
              ELSE c
    ELSE IF type = "close" THEN Throw(c)
    ELSE c

\* StateListener.genericEventListener(type, event).  The close branch calls
\* the free identifier handleStateUpdate, which nothing defines: a
\* ReferenceError.
GenericEventListener(type, event, c) ==
    IF type = "message" /\ event.type = "message"
    THEN LET json == JSONParse(event.data) IN
         IF ~json.ok THEN Throw(c)
         ELSE IF GetProp(json.val, "event") = Str("state")
              THEN HandleStateUpdate(GetProp(json.val, "data"), c)
              ELSE c
    ELSE IF type = "close" THEN Throw(c)
    ELSE c

\* ----------------------------------------------------------- SocketListener
\* A variant of ReconnectDelay that passes the seconds to window.setTimeout
\* as they are, without the factor 1000.
ReconnectDelaySeconds == closed_repeat_delay

\* The delay initConnection gives window.setTimeout (ms).
ReconnectDelay == closed_repeat_delay * 1000

\* The reconnect closure of initConnection: window.setTimeout(initConnection).
ScheduleReconnect(m, c) ==
    [c EXCEPT !.timers = Append(@, [mgr |-> m, due |-> now + ReconnectDelay]),
              !.scheduled = @ + 1]

\* A call fn(event) of a function value.
Invoke(fn, event, c) ==
    LET c1 == [c EXCEPT !.invoked = Append(@, fn)] IN
    CASE fn.f = "generic" -> GenericEventListener(fn.tag, event, c1)
      [] fn.f = "reconnect" -> ScheduleReconnect(fn.mgr, c1)
      [] OTHER -> c1

\* SocketListener.addListeners(callbacks) on a handle's listener list.  The
\* loop declares callback with var, so the one variable is shared by every
\* listener function the call creates: each calls the value the variable
\* holds when the event fires, that of the last property enumerated.
AddListeners(listeners, callbacks) ==
    IF ~callbacks.defined THEN listeners
    ELSE LET n == Len(callbacks.entries) IN
         listeners \o [i \in 1..n |->
             [type |-> callbacks.entries[i].key, callback |-> callbacks.entries[n].fn]]

\* A variant of addListeners that returns on undefined callbacks without
\* its console.error line.
AddListenersSilent(callbacks) == 0

\* The console.error lines of one addListeners call.
AddListenersErrors(callbacks) == IF callbacks.defined THEN 0 ELSE 1

\* A variant of initConnection that an undefined callbacks argument stops
\* before the reconnect listener is added.
InitListenersStopOnUndefined(m, callbacks) ==
    IF ~callbacks.defined THEN <<>>
    ELSE AddListeners(AddListeners(<<>>, callbacks), ReconnectCallbacks(m))

\* The listeners initConnection puts on the new handle of manager m.
InitListeners(m, callbacks) ==
    AddListeners(AddListeners(<<>>, callbacks), ReconnectCallbacks(m))

\* new WebSocket(url) with the listeners of initConnection.  createdAt and
\* closedAt record the handle's history: when it was made and when its close
\* event fired.
NewSocket(m, callbacks) ==
    [mgr |-> m, readyState |-> "CONNECTING", listeners |-> InitListeners(m, callbacks),
     createdAt |-> now, closedAt |-> -1]

RECURSIVE RunListeners(_, _, _, _)

\* The browser's dispatch of event to a handle's listeners: those added for
\* the event's type, in the order they were added.
RunListeners(listeners, i, event, c) ==
    IF i > Len(listeners) THEN c
    ELSE RunListeners(listeners, i + 1, event,
             IF listeners[i].type = event.type
             THEN Invoke(listeners[i].callback, event, c)
             ELSE c)

DispatchEvent(h, event) == RunListeners(socks[h].listeners, 1, event, Ctx(listener.state, timers))

\* ------------------------------------------------------------------ actions
Idle == Ctx(listener.state, timers)

Init ==
    /\ listener = [constructed |-> FALSE, hasCallback |-> FALSE, state |-> Undefined, s |-> 0]
    /\ mgrs = <<>>
    /\ socks = <<>>
    /\ timers = <<>>
    /\ now = 0
    /\ ticks = 0
    /\ calls = <<>>
    /\ count = [messages |-> 0, runs |-> 0, adds |-> 0, uncaught |-> 0]
    /\ last = Did("init", 0, NoEvent, Ctx(Undefined, <<>>))

\* Handles that are open or may still close, and reconnects under way: each
\* leads to one more handle.
Budget ==
    Len(socks) + Len(timers)
        + Cardinality({h \in 1..Len(socks) : socks[h].readyState = "CLOSING"})

\* new SocketListener(url, callbacks): the constructor and its initConnection.
Construct(callbacks) ==
    LET m == Len(mgrs) + 1 IN
    /\ mgrs' = Append(mgrs, [callbacks |-> callbacks, socket |-> Len(socks) + 1])
    /\ socks' = Append(socks, NewSocket(m, callbacks))
    /\ UNCHANGED <<timers, now, ticks, calls>>

\* A variant of the StateListener constructor that connects at once.
NewStateListenerConnecting(hasCallback) ==
    /\ ~listener.constructed
    /\ mgrs = <<>>
    /\ Construct(RunCallbacks)
    /\ listener' = [constructed |-> TRUE, hasCallback |-> hasCallback,
                    state |-> Obj(<<>>), s |-> 1]
    /\ last' = Did("new StateListener", 0, NoEvent, Idle)
    /\ UNCHANGED count

\* new StateListener(url, stateChangeCallback)
NewStateListener(hasCallback) ==
    /\ ~listener.constructed
    /\ mgrs = <<>>
    /\ listener' = [constructed |-> TRUE, hasCallback |-> hasCallback,
                    state |-> Obj(<<>>), s |-> 0]
    /\ last' = Did("new StateListener", 0, NoEvent, Idle)
    /\ UNCHANGED <<mgrs, socks, timers, now, ticks, calls, count>>

\* A variant of run() that closes the handle of the manager it replaces.
RunClosingPrevious(n) ==
    /\ listener.constructed
    /\ count.runs < n
    /\ Budget < MaxSockets
    /\ mgrs' = Append(mgrs, [callbacks |-> RunCallbacks, socket |-> Len(socks) + 1])
    /\ socks' = Append([h \in 1..Len(socks) |->
                           IF listener.s # 0 /\ h = mgrs[listener.s].socket
                              /\ socks[h].readyState \in {"CONNECTING", "OPEN"}
                           THEN [socks[h] EXCEPT !.readyState = "CLOSING"]
                           ELSE socks[h]],
                       NewSocket(Len(mgrs) + 1, RunCallbacks))
    /\ listener' = [listener EXCEPT !.s = Len(mgrs) + 1]
    /\ count' = [count EXCEPT !.runs = @ + 1]
    /\ last' = [Did("run", Len(socks) + 1, NoEvent, Idle)
                   EXCEPT !.errors = AddListenersErrors(RunCallbacks)]
    /\ UNCHANGED <<timers, now, ticks, calls>>

\* StateListener.run(), the n-th call at most.
Run(n) ==
    /\ listener.constructed
    /\ count.runs < n
    /\ Budget < MaxSockets
    /\ Construct(RunCallbacks)
    /\ listener' = [listener EXCEPT !.s = Len(mgrs) + 1]
    /\ count' = [count EXCEPT !.runs = @ + 1]
    /\ last' = [Did("run", Len(socks) + 1, NoEvent, Idle)
                   EXCEPT !.errors = AddListenersErrors(RunCallbacks)]

\* A caller's own new SocketListener(url, callbacks).
NewSocketListener(callbacks) ==
    /\ ~listener.constructed
    /\ mgrs = <<>>
    /\ Construct(callbacks)
    /\ last' = [Did("new SocketListener", Len(socks) + 1, NoEvent, Idle)
                   EXCEPT !.errors = AddListenersErrors(callbacks)]
    /\ UNCHANGED <<listener, count>>

\* The effects of an event's listeners on the program state.
Deliver(op, h, event) ==
    LET c == DispatchEvent(h, event) IN
    /\ listener' = [listener EXCEPT !.state = c.state]
    /\ timers' = c.timers
    /\ calls' = calls \o c.cbArgs
    /\ count' = [count EXCEPT !.uncaught = @ + c.thrown,
                              !.messages = @ + (IF event.type = "message" THEN 1 ELSE 0)]
    /\ last' = Did(op, h, event, c)

\* The transport opens handle h.
SocketOpen(h) ==
    /\ socks[h].readyState = "CONNECTING"
    /\ socks' = [socks EXCEPT ![h].readyState = "OPEN"]
    /\ Deliver("open", h, Event("open", <<>>))
    /\ UNCHANGED <<mgrs, now, ticks>>

\* The transport delivers a text frame on handle h.
SocketMessage(h, text) ==
    /\ socks[h].readyState = "OPEN"
    /\ count.messages < MaxMessages
    /\ Deliver("message", h, Event("message", text))
    /\ UNCHANGED <<mgrs, socks, now, ticks>>

\* The transport closes handle h: the connection failed, dropped, or the
\* closing handshake that close() began has finished.
SocketClose(h) ==
    /\ \/ socks[h].readyState = "CLOSING"
       \/ socks[h].readyState \in {"CONNECTING", "OPEN"} /\ Budget < MaxSockets
    /\ socks' = [socks EXCEPT ![h].readyState = "CLOSED", ![h].closedAt = now]
    /\ Deliver("close", h, Event("close", <<>>))
    /\ UNCHANGED <<mgrs, now, ticks>>

\* A variant of the reconnect that moves the closed handle's listeners to
\* the new handle.
TimerFireKeepingListeners(i) ==
    LET m == timers[i].mgr IN
    /\ timers[i].due <= now
    /\ timers' = [j \in 1..(Len(timers) - 1) |-> IF j < i THEN timers[j] ELSE timers[j + 1]]
    /\ socks' = Append(socks, [NewSocket(m, mgrs[m].callbacks)
                                  EXCEPT !.listeners = socks[mgrs[m].socket].listeners])
    /\ mgrs' = [mgrs EXCEPT ![m].socket = Len(socks) + 1]
    /\ last' = [Did("timer", Len(socks) + 1, NoEvent, Idle)
                   EXCEPT !.errors = AddListenersErrors(mgrs[m].callbacks)]
    /\ UNCHANGED <<listener, now, ticks, calls, count>>

\* A variant of the reconnect that starts the StateListener's snapshot
\* afresh.
TimerFireResetting(i) ==
    LET m == timers[i].mgr IN
    /\ timers[i].due <= now
    /\ timers' = [j \in 1..(Len(timers) - 1) |-> IF j < i THEN timers[j] ELSE timers[j + 1]]
    /\ socks' = Append(socks, NewSocket(m, mgrs[m].callbacks))
    /\ mgrs' = [mgrs EXCEPT ![m].socket = Len(socks) + 1]
    /\ listener' = [listener EXCEPT !.state = Obj(<<>>)]
    /\ last' = [Did("timer", Len(socks) + 1, NoEvent, Idle)
                   EXCEPT !.errors = AddListenersErrors(mgrs[m].callbacks)]
    /\ UNCHANGED <<now, ticks, calls, count>>

\* A timer of window.setTimeout expires: initConnection of its manager.
TimerFire(i) ==
    LET m == timers[i].mgr IN
    /\ timers[i].due <= now
    /\ timers' = [j \in 1..(Len(timers) - 1) |-> IF j < i THEN timers[j] ELSE timers[j + 1]]
    /\ socks' = Append(socks, NewSocket(m, mgrs[m].callbacks))
    /\ mgrs' = [mgrs EXCEPT ![m].socket = Len(socks) + 1]
    /\ last' = [Did("timer", Len(socks) + 1, NoEvent, Idle)
                   EXCEPT !.errors = AddListenersErrors(mgrs[m].callbacks)]
    /\ UNCHANGED <<listener, now, ticks, calls, count>>

\* The managers the embedding code holds a reference to: its own
\* SocketListener, or the one StateListener.s names.
Held(m) == IF listener.constructed THEN m = listener.s ELSE TRUE

\* A variant of close() that takes the listeners off the handle before it
\* closes it.
CallCloseDetaching(m) ==
    LET h == mgrs[m].socket IN
    /\ Held(m)
    /\ \/ socks[h].readyState \in {"CONNECTING", "OPEN"} /\ Budget < MaxSockets
          /\ socks' = [socks EXCEPT ![h].readyState = "CLOSING", ![h].listeners = <<>>]
       \/ socks[h].readyState \in {"CLOSING", "CLOSED"}
          /\ UNCHANGED socks
    /\ last' = Did("close()", h, NoEvent, Idle)
    /\ UNCHANGED <<listener, mgrs, timers, now, ticks, calls, count>>

\* A variant of close() that also starts the next connection itself.
CallCloseReconnecting(m) ==
    LET h == mgrs[m].socket IN
    /\ Held(m)
    /\ socks[h].readyState \in {"CONNECTING", "OPEN"}
    /\ Budget + 1 < MaxSockets
    /\ socks' = Append([socks EXCEPT ![h].readyState = "CLOSING"],
                       NewSocket(m, mgrs[m].callbacks))
    /\ mgrs' = [mgrs EXCEPT ![m].socket = Len(socks) + 1]
    /\ last' = Did("close()", h, NoEvent, Idle)
    /\ UNCHANGED <<listener, timers, now, ticks, calls, count>>

\* A variant of close() that clears the manager's pending reconnect timer.
CallCloseCancelling(m) ==
    LET h == mgrs[m].socket IN
    /\ Held(m)
    /\ \/ socks[h].readyState \in {"CONNECTING", "OPEN"} /\ Budget < MaxSockets
          /\ socks' = [socks EXCEPT ![h].readyState = "CLOSING"]
       \/ socks[h].readyState \in {"CLOSING", "CLOSED"}
          /\ UNCHANGED socks
    /\ timers' = SelectSeq(timers, LAMBDA t : t.mgr # m)
    /\ last' = Did("close()", h, NoEvent, Idle)
    /\ UNCHANGED <<listener, mgrs, now, ticks, calls, count>>

\* SocketListener.close()
CallClose(m) ==
    LET h == mgrs[m].socket IN
    /\ Held(m)
    /\ \/ socks[h].readyState \in {"CONNECTING", "OPEN"} /\ Budget < MaxSockets
          /\ socks' = [socks EXCEPT ![h].readyState = "CLOSING"]
       \/ socks[h].readyState \in {"CLOSING", "CLOSED"}
          /\ UNCHANGED socks
    /\ last' = Did("close()", h, NoEvent, Idle)
    /\ UNCHANGED <<listener, mgrs, timers, now, ticks, calls, count>>

\* A caller's own addListeners(callbacks) on manager m.
CallAddListeners(m, callbacks) ==
    LET h == mgrs[m].socket IN
    /\ Held(m)
    /\ count.adds < MaxAdds
    /\ socks' = [socks EXCEPT ![h].listeners = AddListeners(@, callbacks)]
    /\ count' = [count EXCEPT !.adds = @ + 1]
    /\ last' = [Did("addListeners", h, NoEvent, Idle)
                   EXCEPT !.errors = AddListenersErrors(callbacks)]
    /\ UNCHANGED <<listener, mgrs, timers, now, ticks, calls>>

\* The clock's step: half the reconnect delay.
Tick == (closed_repeat_delay * 1000) \div 2

\* Time passes, by one step or up to the next timer's expiry.  A timer that
\* has expired runs before time passes on.
Advance ==
    /\ \A i \in 1..Len(timers) : timers[i].due > now
    /\ timers # <<>> \/ ticks < MaxTicks
    /\ LET step == now + Tick
           dues == {timers[i].due : i \in 1..Len(timers)}
       IN now' = IF \E d \in dues : d <= step
                 THEN CHOOSE d \in dues : \A e \in dues : d <= e
                 ELSE step
    /\ ticks' = IF timers = <<>> THEN ticks + 1 ELSE ticks
    /\ last' = Did("advance", 0, NoEvent, Idle)
    /\ UNCHANGED <<listener, mgrs, socks, timers, calls, count>>

\* The transport's events, with the message texts of the given set.
Transport(texts) ==
    \/ \E h \in 1..Len(socks) : SocketOpen(h)
    \/ \E h \in 1..Len(socks), text \in texts : SocketMessage(h, text)
    \/ \E h \in 1..Len(socks) : SocketClose(h)

Timer == \E i \in 1..Len(timers) : TimerFire(i)

\* A program that uses StateListener.
Next ==
    \/ \E hasCallback \in BOOLEAN : NewStateListener(hasCallback)
    \/ Run(1)
    \/ Transport(Texts)
    \/ Timer
    \/ \E m \in 1..Len(mgrs) : CallClose(m)
    \/ Advance

Spec == Init /\ [][Next]_vars

\* A program that uses SocketListener directly.
NextSocket ==
    \/ \E callbacks \in CallbackMaps : NewSocketListener(callbacks)
    \/ Transport({TxtIdle})
    \/ Timer
    \/ \E m \in 1..Len(mgrs) : CallClose(m)
    \/ \E m \in 1..Len(mgrs) : \E callbacks \in ManualMaps(m) : CallAddListeners(m, callbacks)
    \/ Advance

SpecSocket == Init /\ [][NextSocket]_vars

\* The close event that ends the closing handshake close() began.
CloseHandshake ==
    \E h \in 1..Len(socks) : socks[h].readyState = "CLOSING" /\ SocketClose(h)

\* A program that constructs a SocketListener and calls close() on it, with
\* a transport that opens and closes handles.
NextReconnect ==
    \/ \E callbacks \in CallbackMaps : NewSocketListener(callbacks)
    \/ \E h \in 1..Len(socks) : SocketOpen(h)
    \/ \E h \in 1..Len(socks) : SocketClose(h)
    \/ Timer
    \/ \E m \in 1..Len(mgrs) : CallClose(m)
    \/ Advance

\* The browser ends a closing handshake, runs expired timers, and time passes.
FairSpecReconnect ==
    /\ Init /\ [][NextReconnect]_vars
    /\ WF_vars(CloseHandshake) /\ WF_vars(Timer) /\ WF_vars(Advance)

\* A program that calls run() on its StateListener up to twice.
NextRerun ==
    \/ \E hasCallback \in BOOLEAN : NewStateListener(hasCallback)
    \/ Run(2)
    \/ Transport({TxtReady, TxtIdle})
    \/ Timer
    \/ \E m \in 1..Len(mgrs) : CallClose(m)
    \/ Advance

SpecRerun == Init /\ [][NextRerun]_vars

\* ------------------------------------------------------------------ claims
EventOps == {"open", "message", "close"}

\* The handle manager socks[h].mgr had before handle h, or 0.
Previous(h) ==
    LET before == {g \in 1..(h - 1) : socks[g].mgr = socks[h].mgr} IN
    IF before = {} THEN 0 ELSE CHOOSE g \in before : \A e \in before : e <= g

SocksOf(m) == {h \in 1..Len(socks) : socks[h].mgr = m}
ClosedOf(m) == {h \in SocksOf(m) : socks[h].readyState = "CLOSED"}
TimersOf(m) == {i \in 1..Len(timers) : timers[i].mgr = m}

\* C1: every close event schedules exactly one initConnection of its manager,
\* due 10000 ms after the event; every handle but a manager's first was made
\* 10000 ms after its predecessor's close event; and a manager has made one
\* connection attempt plus one for each close event whose timer has expired.
ReconnectOncePerClose ==
    /\ last.op = "close" =>
          /\ last.scheduled = 1
          /\ timers # <<>>
          /\ timers[Len(timers)] = [mgr |-> socks[last.sock].mgr, due |-> now + 10000]
    /\ \A h \in 1..Len(socks) :
          Previous(h) # 0 =>
             /\ socks[Previous(h)].readyState = "CLOSED"
             /\ socks[h].createdAt = socks[Previous(h)].closedAt + 10000
    /\ \A m \in 1..Len(mgrs) :
          Cardinality(SocksOf(m)) = 1 + Cardinality(ClosedOf(m)) - Cardinality(TimersOf(m))

\* C1 witness: the second reconnect of a manager has been made, 20000 ms or
\* more after its first handle was created.
ReconnectedTwice ==
    /\ Len(mgrs) = 1
    /\ Len(socks) = 3
    /\ socks[3].createdAt >= socks[1].createdAt + 20000

\* The data of the state messages among Texts, written out.
ReadyData == Obj(<<Member("phase", Str("ready"))>>)
IdleData == Str("idle")
StateTexts == {TxtReady, TxtIdle}
ExpectedData(text) == IF text = TxtReady THEN ReadyData ELSE IdleData

\* C2: a message {"event":"state","data":X} leaves the snapshot equal to X
\* and, when a stateChangeCallback was given, invokes it exactly once, with X.
StateMessageDelivered ==
    (last.op = "message" /\ last.ev.data \in StateTexts) =>
        /\ listener.state = ExpectedData(last.ev.data)
        /\ listener.hasCallback =>
              /\ last.cbArgs = <<ExpectedData(last.ev.data)>>
              /\ calls # <<>>
              /\ calls[Len(calls)] = ExpectedData(last.ev.data)

\* C2 witness: a state message with an object as data has been delivered on
\* a handle that a reconnect created.
StateMessageAfterReconnect ==
    /\ last.op = "message"
    /\ last.ev.data = TxtReady
    /\ listener.hasCallback
    /\ Previous(last.sock) # 0

\* C3: a close event invokes stateChangeCallback with "closed" and makes the
\* snapshot "closed"; after open, one state message with data D and close the
\* callback has been invoked with exactly D and "closed".
ClosedMarkerDelivered ==
    (last.op = "close" /\ listener.hasCallback) =>
        /\ last.cbArgs = <<Str("closed")>>
        /\ listener.state = Str("closed")
        /\ (Len(socks) = 1 /\ count.messages = 1 /\ Len(calls) >= 1 /\ calls[1] = ReadyData)
              => calls = <<ReadyData, Str("closed")>>

\* The functions a callbacks object stores under the key type, in order.
StoredUnder(callbacks, type) ==
    LET hits == SelectSeq(callbacks.entries, LAMBDA e : e.key = type) IN
    [i \in 1..Len(hits) |-> hits[i].fn]

UserInvoked == SelectSeq(last.invoked, LAMBDA fn : fn.f = "user")

\* C4: an event of type T on a handle that carries only the listeners of
\* initConnection invokes the caller's handler stored under T, and no
\* handler stored under another key.
HandlersReachOwnType ==
    (last.op \in EventOps /\ count.adds = 0 /\ ~listener.constructed) =>
        UserInvoked = StoredUnder(mgrs[socks[last.sock].mgr].callbacks, last.ev.type)

\* C5: when the callbacks object has a "close" handler, a close event invokes
\* that handler once and schedules exactly one reconnect.
CallerCloseAndReconnectBothFire ==
    (/\ last.op = "close"
     /\ count.adds = 0
     /\ ~listener.constructed
     /\ StoredUnder(mgrs[socks[last.sock].mgr].callbacks, "close") # <<>>) =>
        /\ Len(SelectSeq(last.invoked, LAMBDA fn : fn = UserFn("onClose"))) = 1
        /\ last.scheduled = 1

\* C6: a message that parses to an object whose event field is not "state",
\* or is missing, leaves the snapshot as it was and invokes no
\* stateChangeCallback.
OtherEventsIgnored ==
    [][(last'.op = "message" /\ last'.ev.data \in {TxtOther, TxtNoEvent}) =>
          /\ listener'.state = listener.state
          /\ calls' = calls
          /\ last'.cbArgs = <<>>]_vars

\* C6 witness: such a message has arrived after a state was stored.
OtherEventAfterState ==
    /\ last.op = "message"
    /\ last.ev.data \in {TxtOther, TxtNoEvent}
    /\ listener.hasCallback
    /\ listener.state = ReadyData

\* C7: every manager always has a handle that is not closed or a reconnect
\* timer pending, and whenever a handle is closing after close() a further
\* handle is eventually created.
CloseStillReconnects ==
    /\ [](\A m \in 1..Len(mgrs) :
             \/ TimersOf(m) # {}
             \/ \E h \in SocksOf(m) : socks[h].readyState # "CLOSED")
    /\ \A n \in 1..(MaxSockets + 1) :
          (Len(socks) = n /\ \E h \in 1..Len(socks) : socks[h].readyState = "CLOSING")
              ~> (Len(socks) > n)

\* C7 witness: close() was called on a handle that a reconnect had created
\* and that had not closed yet; the handle is closing.
CloseCalledAfterReconnect ==
    /\ last.op = "close()"
    /\ socks[last.sock].readyState = "CLOSING"
    /\ Previous(last.sock) # 0

\* C8: before the first run() there is no SocketListener and no handle, and
\* the first run() makes exactly one handle, at once.
NoConnectionBeforeRun ==
    /\ count.runs = 0 => (mgrs = <<>> /\ socks = <<>> /\ timers = <<>> /\ listener.s = 0)
    /\ (last.op = "run" /\ count.runs = 1) =>
          /\ Len(mgrs) = 1
          /\ Len(socks) = 1
          /\ socks[1].createdAt = now
          /\ timers = <<>>
          /\ listener.s = 1

\* C8 witness: the first run() came some time after the construction.
FirstRunLater ==
    /\ last.op = "run"
    /\ count.runs = 1
    /\ now > 0

\* C9: every handle that has not delivered its close event carries exactly
\* one reconnect listener, added for "close" and bound to the handle's manager.
ReconnectListenerOnLiveSockets ==
    \A h \in 1..Len(socks) :
        socks[h].readyState # "CLOSED" =>
            LET ls == socks[h].listeners IN
            /\ Cardinality({i \in 1..Len(ls) : ls[i].callback.f = "reconnect"}) = 1
            /\ \E i \in 1..Len(ls) :
                   ls[i] = [type |-> "close", callback |-> ReconnectFn(socks[h].mgr)]

\* C9 witness: a reconnect has created a handle for a manager that was
\* constructed with undefined callbacks.
LiveSocketWithoutCallbacks ==
    \E h \in 1..Len(socks) :
        /\ socks[h].readyState # "CLOSED"
        /\ Previous(h) # 0
        /\ mgrs[socks[h].mgr].callbacks = NoCallbacks

\* C10: a message that is not valid JSON raises one exception and changes
\* nothing else: snapshot, callback invocations, handles and timers stay as
\* they were; and a state message that arrives after such a message is
\* delivered to stateChangeCallback.
MalformedMessageIsolated ==
    /\ [][(last'.op = "message" /\ last'.ev.data = TxtTruncated) =>
             /\ listener' = listener
             /\ calls' = calls
             /\ socks' = socks
             /\ mgrs' = mgrs
             /\ timers' = timers
             /\ last'.cbArgs = <<>>
             /\ last'.thrown = 1]_vars
    /\ []((/\ last.op = "message"
           /\ last.ev.data \in StateTexts
           /\ count.uncaught > 0
           /\ listener.hasCallback) =>
              /\ last.cbArgs = <<ExpectedData(last.ev.data)>>
              /\ listener.state = ExpectedData(last.ev.data))

\* C10 witness: a state message was delivered on the handle that had
\* received a malformed message before.
StateMessageAfterMalformed ==
    /\ last.op = "message"
    /\ last.ev.data = TxtIdle
    /\ count.uncaught = 1
    /\ Len(socks) = 1
    /\ last.cbArgs = <<IdleData>>

\* The listener types initConnection puts on a handle for a callbacks
\* argument: its keys in order, then the reconnect listener's "close".
KeysOf(callbacks) == [i \in 1..Len(callbacks.entries) |-> callbacks.entries[i].key]
TypesOf(listeners) == [i \in 1..Len(listeners) |-> listeners[i].type]

\* C11: addListeners(undefined) writes one console.error line, throws nothing
\* and leaves every handle's listeners as they were; a SocketListener
\* constructed with undefined callbacks writes that line in each
\* initConnection, still gets a handle whose only listener is the reconnect
\* listener, and schedules a reconnect on every close event.
UndefinedCallbacksReported ==
    /\ [][\A m \in 1..Len(mgrs) :
             CallAddListeners(m, NoCallbacks) =>
                /\ socks' = socks
                /\ timers' = timers
                /\ last'.errors = 1
                /\ last'.thrown = 0]_vars
    /\ [](\A h \in 1..Len(socks) :
             mgrs[socks[h].mgr].callbacks = NoCallbacks =>
                /\ (last.op \in {"new SocketListener", "timer"} /\ last.sock = h) =>
                       /\ last.errors = 1
                       /\ last.thrown = 0
                       /\ socks[h].readyState = "CONNECTING"
                       /\ socks[h].listeners =
                             <<[type |-> "close", callback |-> ReconnectFn(socks[h].mgr)]>>
                /\ (last.op = "close" /\ last.sock = h) => last.scheduled = 1)

\* C11 witness: addListeners(undefined) was called on a handle that a
\* reconnect created for a manager constructed with undefined callbacks.
AddUndefinedAfterReconnect ==
    /\ last.op = "addListeners"
    /\ last.errors = 1
    /\ mgrs[1].callbacks = NoCallbacks
    /\ Previous(last.sock) # 0

HasAdded(h) ==
    \E i \in 1..Len(socks[h].listeners) : socks[h].listeners[i].callback = UserFn("onAdded")

\* C12: a manual addListeners call changes the listeners of the manager's
\* current handle only; a handle made by a reconnect starts with one
\* listener for each key of the constructor's callbacks and the reconnect
\* listener, none of them manually added; and after the one manual call was
\* made on an earlier handle, no event of a later handle invokes the
\* manually added function.
ManualListenersNotReadded ==
    /\ [][\A m \in 1..Len(mgrs) : \A callbacks \in ManualMaps(m) :
             CallAddListeners(m, callbacks) =>
                \A h \in 1..Len(socks) : h # mgrs[m].socket => socks'[h] = socks[h]]_vars
    /\ [](last.op = "timer" =>
             /\ TypesOf(socks[last.sock].listeners)
                   = KeysOf(mgrs[socks[last.sock].mgr].callbacks) \o <<"close">>
             /\ ~HasAdded(last.sock))
    /\ []((/\ last.op \in EventOps
           /\ count.adds = 1
           /\ \E g \in 1..(last.sock - 1) : HasAdded(g)) =>
              \A i \in 1..Len(last.invoked) : last.invoked[i] # UserFn("onAdded"))

\* C12 witness: a message arrived on a reconnected handle after a message
\* listener was added manually to the handle before it; only the
\* constructor's handler ran.
MessageAfterManualAdd ==
    /\ last.op = "message"
    /\ Previous(last.sock) # 0
    /\ HasAdded(Previous(last.sock))
    /\ last.invoked = <<UserFn("onMessage")>>

\* The callbacks object of handle h's manager has been registered on h
\* twice: by initConnection and by one manual addListeners call.
RegisteredTwice(h) ==
    LET callbacks == mgrs[socks[h].mgr].callbacks IN
    /\ callbacks.defined
    /\ callbacks.entries # <<>>
    /\ ~HasAdded(h)
    /\ TypesOf(socks[h].listeners) = KeysOf(callbacks) \o <<"close">> \o KeysOf(callbacks)

CountOf(fn) == Len(SelectSeq(last.invoked, LAMBDA g : g = fn))

\* C13: a close event of a handle on which a callbacks object with a "close"
\* handler has been registered twice invokes that handler twice and the
\* reconnect listener once, and schedules exactly one reconnect.
RegistrationCumulative ==
    (/\ last.op = "close"
     /\ RegisteredTwice(last.sock)
     /\ StoredUnder(mgrs[socks[last.sock].mgr].callbacks, "close") # <<>>) =>
        /\ CountOf(UserFn("onClose")) = 2
        /\ CountOf(ReconnectFn(socks[last.sock].mgr)) = 1
        /\ last.scheduled = 1

\* C14: without a stateChangeCallback a state message with data X makes the
\* snapshot X, invokes nothing, throws nothing and writes one console.info
\* line; handles, timers and managers stay as they were.
StateTrackedWithoutCallback ==
    /\ []((/\ last.op = "message"
           /\ last.ev.data \in StateTexts
           /\ ~listener.hasCallback) =>
              /\ listener.state = ExpectedData(last.ev.data)
              /\ last.cbArgs = <<>>
              /\ calls = <<>>
              /\ last.thrown = 0
              /\ last.infos = 1
              /\ last.scheduled = 0
              /\ socks[last.sock].readyState = "OPEN")
    /\ [][(/\ last'.op = "message"
           /\ last'.ev.data \in StateTexts
           /\ ~listener.hasCallback) =>
              (socks' = socks /\ timers' = timers /\ mgrs' = mgrs)]_vars

\* C14 witness: without a callback, a state message was stored on a handle
\* that a reconnect created.
StateStoredWithoutCallback ==
    /\ last.op = "message"
    /\ last.ev.data = TxtReady
    /\ ~listener.hasCallback
    /\ listener.state = ReadyData
    /\ Previous(last.sock) # 0

LiveOf(m) == SocksOf(m) \ ClosedOf(m)

\* C15: a manager has either one handle that is not closed and no pending
\* timer, or no such handle and one pending timer; the handle it refers to
\* is its newest, every older one is closed; and it moves to another handle
\* only when the old one is closed, and then to a new one.
OneHandleOrOneTimer ==
    /\ [](\A m \in 1..Len(mgrs) :
             /\ Cardinality(LiveOf(m)) + Cardinality(TimersOf(m)) = 1
             /\ mgrs[m].socket \in SocksOf(m)
             /\ \A h \in SocksOf(m) : h <= mgrs[m].socket
             /\ \A h \in SocksOf(m) : h # mgrs[m].socket => socks[h].readyState = "CLOSED")
    /\ [][\A m \in 1..Len(mgrs) :
             mgrs'[m].socket # mgrs[m].socket =>
                /\ socks[mgrs[m].socket].readyState = "CLOSED"
                /\ mgrs'[m].socket = Len(socks) + 1
                /\ socks'[mgrs[m].socket] = socks[mgrs[m].socket]]_vars

\* C15 witness: the manager is on its third handle, and it is open.
ThirdHandleOpen ==
    /\ Len(mgrs) = 1
    /\ mgrs[1].socket = 3
    /\ socks[3].readyState = "OPEN"
    /\ timers = <<>>

Successors(h) == {g \in 1..Len(socks) : Previous(g) = h}

\* C16: close() on a handle that is closing or closed changes no handle, no
\* timer and no manager; every closed handle has either its one reconnect
\* timer pending, due 10000 ms after its close event, or exactly one
\* successor, made 10000 ms after its close event.
CloseWhilePendingIsNoOp ==
    /\ [][(last'.op = "close()" /\ socks[last'.sock].readyState \in {"CLOSING", "CLOSED"}) =>
             /\ socks' = socks
             /\ timers' = timers
             /\ mgrs' = mgrs
             /\ now' = now]_vars
    /\ [](\A h \in 1..Len(socks) :
             socks[h].readyState = "CLOSED" =>
                LET mine == {i \in TimersOf(socks[h].mgr) : mgrs[socks[h].mgr].socket = h} IN
                /\ Cardinality(Successors(h)) + Cardinality(mine) = 1
                /\ \A i \in mine : timers[i].due = socks[h].closedAt + 10000
                /\ \A g \in Successors(h) : socks[g].createdAt = socks[h].closedAt + 10000)

\* C16 witness: close() was called some time after the handle's close event,
\* while the reconnect timer was pending.
CloseCalledWhilePending ==
    /\ last.op = "close()"
    /\ socks[last.sock].readyState = "CLOSED"
    /\ Len(timers) = 1
    /\ now > socks[last.sock].closedAt
    /\ now < timers[1].due

SecondRunAddsManager ==
    /\ [][(last'.op = "run" /\ count'.runs = 2) =>
             /\ Len(mgrs') = 2
             /\ mgrs'[1] = mgrs[1]
             /\ Len(socks') = Len(socks) + 1
             /\ \A h \in 1..Len(socks) : socks'[h] = socks[h]
             /\ socks'[Len(socks')].mgr = 2
             /\ socks'[Len(socks')].readyState = "CONNECTING"
             /\ timers' = timers
             /\ listener'.s = 2
             /\ listener'.state = listener.state]_vars
    /\ [](count.runs = 2 =>
             /\ listener.s = 2
             /\ \A m \in {1, 2} : Cardinality(LiveOf(m)) + Cardinality(TimersOf(m)) = 1
             /\ last.op = "close()" => socks[last.sock].mgr = 2
             /\ last.op = "close" =>
                   /\ last.scheduled = 1
                   /\ Cardinality(TimersOf(socks[last.sock].mgr)) = 1
             /\ (last.op = "message" /\ last.ev.data \in StateTexts) =>
                   /\ listener.state = (IF last.ev.data = TxtReady THEN ReadyData ELSE IdleData)
                   /\ listener.hasCallback =>
                         last.cbArgs = <<IF last.ev.data = TxtReady THEN ReadyData ELSE IdleData>>)

\* C18 witness: after the second run() both managers have an open handle and
\* a state message arrives on the first manager's handle, overwriting what a
\* message on the second manager's handle had stored.
BothManagersOpenAndFirstDelivers ==
    /\ count.runs = 2
    /\ \A m \in {1, 2} : \E h \in SocksOf(m) : socks[h].readyState = "OPEN"
    /\ last.op = "message"
    /\ socks[last.sock].mgr = 1
    /\ last.ev.data = TxtIdle
    /\ listener.state = IdleData
    /\ listener.hasCallback
    /\ calls = <<ReadyData, IdleData>>

====
